---------------------------- MODULE Spec2Model ----------------------------
(***************************************************************************)
(* A model of the mini-blockchain of Exercice1..4.cpp: the Merkle tree,    *)
(* the block with its two sealing rules (mineBlock, forgeBlock), the       *)
(* stake-weighted validator selection and Blockchain::isValid.             *)
(*                                                                         *)
(* Strings.  A std::string is a sequence of tokens.  A token is either one *)
(* character, [c |-> "x"], or one SHA-256 digest, [sha |-> data], standing *)
(* for the 64 lowercase hexadecimal characters sha256_hex(data) returns.   *)
(* The digest is ideal: two digests are equal exactly when their inputs    *)
(* are equal strings.                                                      *)
(*                                                                         *)
(* uint64_t.  A value that takes part in the stake arithmetic is a pair    *)
(* <<q, s>> standing for the integer q * 2^64 + s, with s small, so that   *)
(* sums and their reduction modulo 2^64 are exact.                         *)
(***************************************************************************)
EXTENDS Integers, Sequences, FiniteSets, TLC

VARIABLES
    kind,        \* class of the chain object: "none", "Base", "PoW", "PoS"
    status,      \* "none" before construction, "ok", or "crashed"
    chain,       \* Blockchain::chain
    difficulty,  \* PoWBlockchain::difficulty
    validators,  \* PoSBlockchain::validators
    randVal,     \* selectValidator: the last value of randVal
    selected,    \* the string selectValidator returned last
    hexZeros,    \* SHA-256 so far: input |-> leading '0' characters of its hex
    tamper,      \* how a test harness has mutated the chain: "none", ...
    wasValid,    \* isValid() just before the harness mutated the chain
    leaves,      \* MerkleTree::leaves
    tree,        \* MerkleTree::tree
    built,       \* the MerkleTree constructor has run
    pc,          \* where each caller of addBlock stands in its call
    pending      \* addBlock's local newBlock of each caller, <<>> outside a call

vars == <<kind, status, chain, difficulty, validators, randVal, selected,
          hexZeros, tamper, wasValid, leaves, tree, built, pc, pending>>

chainVars == <<kind, status, chain, difficulty, hexZeros, tamper, wasValid>>
stakeVars == <<validators, randVal, selected>>
merkleVars == <<leaves, tree, built>>
threadVars == <<pc, pending>>

-----------------------------------------------------------------------------
(* Bounds of the model.                                                    *)

MaxBlocks == 3       \* blocks in a chain, the genesis block included
MaxNonce == 2        \* nonces a mining loop may try are 0..MaxNonce
MaxLeaves == 5       \* leaves of a Merkle tree built on its own
MaxValidators == 3   \* validators of a list selectValidator is applied to
MaxDraw == 6         \* draws checked near 0 when the total stake is huge

\* The callers that may be inside addBlock of one chain at a time.
Producers == {1, 2}

-----------------------------------------------------------------------------
(* Strings.                                                                *)

Chars(s) == [i \in DOMAIN s |-> [c |-> s[i]]]

DigitChars == <<"0", "1", "2", "3", "4", "5", "6", "7", "8", "9">>

\* operator<< of an unsigned integer: its decimal digits, no padding.
RECURSIVE Dec(_)
Dec(n) ==
    IF n < 10 THEN Chars(<<DigitChars[n + 1]>>)
    ELSE Dec(n \div 10) \o Chars(<<DigitChars[(n % 10) + 1]>>)

\* operator<< of a double in the default format (precision 6), for the
\* amounts used here: whole numbers below 10^6 print as their digits.
FormatDouble(a) == Dec(a)

npos == -1

\* std::string::find: the 0-based position of the first occurrence of pat.
\* A digest token is 64 hexadecimal characters, so no pattern that starts
\* with a character outside 0-9a-f matches at or inside one.
Find(s, pat) ==
    LET hits == {p \in 0..(Len(s) - Len(pat)) :
                    \A j \in 1..Len(pat) : s[p + j] = pat[j]}
    IN  IF hits = {} THEN npos
        ELSE CHOOSE p \in hits : \A q \in hits : p <= q

\* std::string::substr(pos, n); n = npos takes the rest.
SubStr(s, pos, n) ==
    LET last == IF n = npos \/ pos + n > Len(s) THEN Len(s) ELSE pos + n
    IN  SubSeq(s, pos + 1, last)

-----------------------------------------------------------------------------
(* SHA-256.                                                                *)

DigestLen == 64

sha256_hex(data) == <<[sha |-> data]>>

\* The numbers of leading '0' characters a digest is given in this model.
ZeroCounts == {0, 2}

\* hash.substr(0, difficulty) == string(difficulty, '0') for a digest whose
\* hex form starts with exactly `zeros` characters '0': substr yields
\* min(difficulty, 64) characters, so the two are equal only if
\* difficulty <= 64 and the first `difficulty` characters are '0'.
HasZeroPrefix(zeros, diff) == diff <= DigestLen /\ zeros >= diff

-----------------------------------------------------------------------------
(* MerkleTree.                                                             *)

\* LevelLoop with the odd node hashed with itself instead of promoted.
RECURSIVE LevelLoop_DuplicateOdd(_, _, _, _)
LevelLoop_DuplicateOdd(t, offset, levelSize, i) ==
    IF i >= levelSize THEN t
    ELSE LET left == t[offset + i + 1]
             right == IF i + 1 < levelSize THEN t[offset + i + 2] ELSE left
         IN  LevelLoop_DuplicateOdd(Append(t, sha256_hex(left \o right)),
                                    offset, levelSize, i + 2)

\* One pass of the for loop over a level: i = 0, 2, 4, ...
RECURSIVE LevelLoop(_, _, _, _)
LevelLoop(t, offset, levelSize, i) ==
    IF i >= levelSize THEN t
    ELSE IF i + 1 < levelSize
         THEN LET combined == t[offset + i + 1] \o t[offset + i + 2]
              IN  LevelLoop(Append(t, sha256_hex(combined)), offset, levelSize, i + 2)
         ELSE LevelLoop(Append(t, t[offset + i + 1]), offset, levelSize, i + 2)

\* The while loop: while (tree.size() - offset > 1).
RECURSIVE WhileLoop(_, _)
WhileLoop(t, offset) ==
    IF Len(t) - offset > 1
    THEN LET levelSize == Len(t) - offset
         IN  WhileLoop(LevelLoop(t, offset, levelSize, 0), offset + levelSize)
    ELSE t

\* MerkleTree::buildTree: the value of `tree` it leaves, a sequence of strings.
buildTree(data) ==
    WhileLoop([i \in DOMAIN data |-> sha256_hex(data[i])], 0)

\* getRoot without the sentinel: the root of no leaves is the digest of "".
getRoot_HashOfEmpty(t) == IF t = <<>> THEN sha256_hex(<<>>) ELSE t[Len(t)]

\* getRoot reading the first node of the vector instead of the last.
getRoot_Front(t) == IF t = <<>> THEN <<>> ELSE t[1]

getRoot(t) == IF t = <<>> THEN <<>> ELSE t[Len(t)]

-----------------------------------------------------------------------------
(* Transaction and Block.                                                  *)

Transaction(id, sender, receiver, amount) ==
    [id |-> id, sender |-> sender, receiver |-> receiver, amount |-> amount]

\* toString that leaves the amount out.
toString_NoAmount(tx) == tx.id \o tx.sender \o tx.receiver

toString(tx) == tx.id \o tx.sender \o tx.receiver \o FormatDouble(tx.amount)

\* Block::Block; `now` is what time(nullptr) returns.  `hash` starts empty.
Block(idx, prev, txs, now) ==
    LET txStrings == [i \in DOMAIN txs |-> toString(txs[i])]
    IN  [index |-> idx, previousHash |-> prev, merkleRoot |-> getRoot(buildTree(txStrings)),
         transactions |-> txs, timestamp |-> now, nonce |-> 0, hash |-> <<>>]

\* The string Block::computeHash hashes.
Preimage(b, testNonce, validator) ==
    Dec(b.index) \o b.previousHash \o b.merkleRoot \o Dec(b.timestamp) \o Dec(testNonce)
    \o (IF validator # <<>>
        THEN Chars(<<" ", "(", "V", "a", "l", "i", "d", "a", "t", "e", "d", " ",
                     "b", "y", ":", " ">>) \o validator \o Chars(<<")">>)
        ELSE <<>>)

computeHash(b, testNonce, validator) == sha256_hex(Preimage(b, testNonce, validator))

\* The number of leading '0' characters of a digest's hex form, as SHA-256
\* (the table sha: input |-> count) fixes it.
LeadingZeros(hash, sha) == sha[hash[1].sha]

\* Block::mineBlock from the block's current nonce; the loop is cut after
\* nonce MaxNonce, where the result says mined = FALSE.
RECURSIVE mineLoop(_, _, _)
mineLoop(b, diff, sha) ==
    LET hashed == [b EXCEPT !.hash = computeHash(b, b.nonce, <<>>)]
    IN  IF HasZeroPrefix(LeadingZeros(hashed.hash, sha), diff)
        THEN [block |-> hashed, mined |-> TRUE]
        ELSE IF b.nonce >= MaxNonce THEN [block |-> hashed, mined |-> FALSE]
        ELSE mineLoop([hashed EXCEPT !.nonce = @ + 1], diff, sha)

\* mineBlock that leaves the loop after the first hash, whatever its prefix.
mineBlock_FirstHash(b, diff, sha) ==
    [block |-> [b EXCEPT !.hash = computeHash(b, b.nonce, <<>>)], mined |-> TRUE]

\* mineBlock whose search starts at nonce 1.
mineBlock_FromOne(b, diff, sha) == mineLoop([b EXCEPT !.nonce = 1], diff, sha)

mineBlock(b, diff, sha) == mineLoop(b, diff, sha)

\* forgeBlock that reads the clock again when it seals.
forgeBlock_NewTimestamp(b, validator) ==
    LET reset == [b EXCEPT !.nonce = 0, !.timestamp = @ + 1]
    IN  [reset EXCEPT !.hash = computeHash(reset, reset.nonce, validator)]

\* Block::forgeBlock.
forgeBlock(b, validator) ==
    LET reset == [b EXCEPT !.nonce = 0]
    IN  [reset EXCEPT !.hash = computeHash(reset, reset.nonce, validator)]

-----------------------------------------------------------------------------
(* uint64_t arithmetic of the stakes: <<q, s>> is q * 2^64 + s.            *)

U64(n) == <<0, n>>
U64Max == <<1, -1>>

BigAdd(a, b) == <<a[1] + b[1], a[2] + b[2]>>
BigLess(a, b) == a[1] < b[1] \/ (a[1] = b[1] /\ a[2] < b[2])

\* The value modulo 2^64, in 0 .. 2^64 - 1.
Wrap64(a) == IF a[2] >= 0 THEN <<0, a[2]>> ELSE <<1, a[2]>>

\* totalStake after the first loop over the first n validators.
RECURSIVE totalStake(_, _)
totalStake(vals, n) ==
    IF n = 0 THEN U64(0)
    ELSE Wrap64(BigAdd(totalStake(vals, n - 1), vals[n].second))

\* The second loop of selectValidator, from validator i with `current`.
RECURSIVE selectLoop(_, _, _, _)
selectLoop(vals, r, i, current) ==
    IF i > Len(vals) THEN vals[Len(vals)].first
    ELSE LET cur == Wrap64(BigAdd(current, vals[i].second))
         IN  IF BigLess(r, cur) THEN vals[i].first
             ELSE selectLoop(vals, r, i + 1, cur)

\* PoSBlockchain::selectValidator on a non-empty list, when dis(gen) is r.
selectValidator(vals, r) == selectLoop(vals, r, 1, U64(0))

-----------------------------------------------------------------------------
(* The inputs the model draws from.                                        *)

V(n) == Chars(<<"V", DigitChars[n + 1]>>)

\* What time(nullptr) may return.
Timestamps == {1}

\* The difficulties a PoW chain is built with.
Difficulties == {0, 1, 2}

Tx1 == Transaction(Chars(<<"1", "1">>), Chars(<<"A">>), Chars(<<"B">>), 10)
Tx2 == Transaction(Chars(<<"1", "2">>), Chars(<<"B">>), Chars(<<"C">>), 5)

\* The transaction lists handed to addBlock.
TxBatches == {<<>>, <<Tx1>>, <<Tx1, Tx2>>}

\* The amounts a harness may overwrite a stored amount with.
Amounts == {10, 20}

\* A digest that is the hash of no block.
UnrelatedDigest == sha256_hex(Chars(<<"x">>))

\* The strings a read through validators.back() of an empty vector may yield.
GarbageNames == {Chars(<<"?">>)}

Validator(name, stake) == [first |-> name, second |-> stake]

\* The validator lists a PoS chain is built with.
ValidatorConfigs ==
    { <<>>,
      <<Validator(V(1), U64(0))>>,
      <<Validator(V(1), U64(1)), Validator(V(2), U64(2))>>,
      <<Validator(<<>>, U64(1))>> }

\* What uniform_int_distribution<uint64_t>(0, totalStake - 1) can return: every
\* value up to the bound when the bound is small, and the values near 0 and
\* near 2^64 - 1 up to the bound when it is not.
Draws(vals) ==
    LET bound == Wrap64(BigAdd(totalStake(vals, Len(vals)), <<0, -1>>))
    IN  IF bound[1] = 0 THEN {U64(n) : n \in 0..bound[2]}
        ELSE {U64(n) : n \in 0..MaxDraw}
             \cup {<<1, -n>> : n \in (-bound[2])..(-bound[2] + 1)}

\* What the call returns: on an empty list validators.back() is undefined
\* behaviour, which either crashes or yields some string.
SelectOutcomes(vals, r) ==
    IF vals = <<>>
    THEN {[crashed |-> TRUE, name |-> <<>>]}
         \cup {[crashed |-> FALSE, name |-> g] : g \in GarbageNames}
    ELSE {[crashed |-> FALSE, name |-> selectValidator(vals, r)]}

-----------------------------------------------------------------------------
(* Blockchain::isValid.                                                    *)

ValidatedBy == Chars(<<"(", "V", "a", "l", "i", "d", "a", "t", "e", "d", " ", "b", "y", ":">>)

\* recomputedHash that hashes with nonce 0 instead of the stored nonce.
recomputedHash_NonceZero(current) == computeHash(current, 0, <<>>)

\* The digest isValid compares block `current` with.
recomputedHash(current) ==
    LET pos == Find(current.hash, ValidatedBy)
    IN  IF pos # npos
        THEN LET rest == SubStr(current.hash, pos + 13, npos)
                 validator == SubStr(rest, 0, Find(rest, Chars(<<")">>)))
             IN  computeHash(current, current.nonce, validator)
        ELSE computeHash(current, current.nonce, <<>>)

\* The validator isValid reads back from a stored block: the text between
\* "(Validated by:" and ")" in its hash, or none ("") when the hash does not
\* hold that text.
extractValidator(current) ==
    LET pos == Find(current.hash, ValidatedBy)
    IN  IF pos # npos
        THEN LET rest == SubStr(current.hash, pos + 13, npos)
             IN  SubStr(rest, 0, Find(rest, Chars(<<")">>)))
        ELSE <<>>

\* The for loop of isValid from C++ index i (block c[i + 1] here).
RECURSIVE isValidFrom(_, _)
isValidFrom(c, i) ==
    IF i >= Len(c) THEN TRUE
    ELSE LET current == c[i + 1]
             previous == c[i]
         IN  IF current.previousHash # previous.hash THEN FALSE
             ELSE IF current.hash # recomputedHash(current) THEN FALSE
             ELSE isValidFrom(c, i + 1)

\* isValid whose loop starts one block late.
isValid_FromSecond(c) == isValidFrom(c, 2)

\* isValid that first compares the genesis block's hash with its digest.
isValid_WithGenesis(c) ==
    c # <<>> /\ c[1].hash = recomputedHash(c[1]) /\ isValidFrom(c, 1)

\* isValid that also asks every block i > 0 of a PoW chain for a hash with
\* `difficulty` leading '0' characters.
isValid_CheckPoW(c) ==
    /\ isValidFrom(c, 1)
    /\ kind = "PoW" =>
          \A i \in 2..Len(c) :
             /\ c[i].hash # <<>>
             /\ c[i].hash[1].sha \in DOMAIN hexZeros
             /\ HasZeroPrefix(LeadingZeros(c[i].hash, hexZeros), difficulty)

isValid(c) == isValidFrom(c, 1)

\* getLastBlock that returns chain.front().
getLastBlock_Front(c) == c[1]

getLastBlock(c) == c[Len(c)]

-----------------------------------------------------------------------------
(* The chain objects: construction, addBlock, and a harness that mutates a *)
(* stored block.                                                           *)

EmptyTable == [x \in {} |-> 0]

\* Blockchain::Blockchain: the chain holding the unsealed genesis block.
Blockchain(now) ==
    LET genesisTx == <<Transaction(Chars(<<"0">>), Chars(<<"G", "e", "n", "e", "s", "i", "s">>),
                                   Chars(<<"G", "e", "n", "e", "s", "i", "s">>), 0)>>
        genesis == Block(0, Chars(<<"0">>), genesisTx, now)
    IN  <<genesis>>

\* The inputs SHA-256 is given while block b is mined.
MiningInputs(b) == {Preimage(b, n, <<>>) : n \in 0..MaxNonce}

\* The tables that agree with hexZeros and also fix SHA-256 on MiningInputs(b).
Oracles(b) ==
    {hexZeros @@ [p \in MiningInputs(b) |-> z[CHOOSE n \in 0..MaxNonce : Preimage(b, n, <<>>) = p]] :
        z \in [0..MaxNonce -> ZeroCounts]}

\* The table restricted to what has been hashed once b is mined.
Hashed(sha, mined) ==
    [p \in DOMAIN hexZeros \cup {Preimage(mined, n, <<>>) : n \in 0..mined.nonce} |-> sha[p]]

\* The state in which addBlock may be called: a constructed chain the harness
\* has left alone, below the model's length bound.
CanAppend(k) == kind = k /\ status = "ok" /\ tamper = "none" /\ Len(chain) < MaxBlocks

CanTamper == status = "ok" /\ tamper = "none"

NewBase(now) ==
    /\ status = "none"
    /\ kind' = "Base"
    /\ status' = "ok"
    /\ chain' = Blockchain(now)
    /\ UNCHANGED <<difficulty, hexZeros, tamper, wasValid, stakeVars, merkleVars, threadVars>>

\* PoWBlockchain::PoWBlockchain(diff).
NewPoW(diff, now, sha) ==
    LET base == Blockchain(now)
        m == mineBlock(base[1], diff, sha)
    IN  /\ status = "none"
        /\ m.mined
        /\ kind' = "PoW"
        /\ status' = "ok"
        /\ difficulty' = diff
        /\ chain' = <<m.block>>
        /\ hexZeros' = Hashed(sha, m.block)
        /\ UNCHANGED <<tamper, wasValid, stakeVars, merkleVars, threadVars>>

\* PoWBlockchain::addBlock(txs).
PoWAddBlock(txs, now, sha) ==
    LET newBlock == Block(Len(chain), getLastBlock(chain).hash, txs, now)
        m == mineBlock(newBlock, difficulty, sha)
    IN  /\ CanAppend("PoW")
        /\ m.mined
        /\ chain' = Append(chain, m.block)
        /\ hexZeros' = Hashed(sha, m.block)
        /\ UNCHANGED <<kind, status, difficulty, tamper, wasValid, stakeVars, merkleVars, threadVars>>

\* PoSBlockchain::PoSBlockchain(vals).
NewPoS(vals, now, r, out) ==
    /\ status = "none"
    /\ kind' = "PoS"
    /\ validators' = vals
    /\ randVal' = r
    /\ IF out.crashed
       THEN /\ status' = "crashed"
            /\ chain' = <<>>
            /\ UNCHANGED selected
       ELSE /\ status' = "ok"
            /\ selected' = <<out.name>>
            /\ chain' = <<forgeBlock(Blockchain(now)[1], out.name)>>
    /\ UNCHANGED <<difficulty, hexZeros, tamper, wasValid, merkleVars, threadVars>>

\* PoSAddBlock that assigns the new block to chain.back() instead of pushing it.
PoSAddBlock_ReplaceTip(txs, now, r, out) ==
    LET newBlock == Block(Len(chain), getLastBlock(chain).hash, txs, now)
    IN  /\ CanAppend("PoS")
        /\ randVal' = r
        /\ IF out.crashed
           THEN /\ status' = "crashed"
                /\ UNCHANGED <<chain, selected>>
           ELSE /\ selected' = <<out.name>>
                /\ chain' = [chain EXCEPT ![Len(chain)] = forgeBlock(newBlock, out.name)]
                /\ UNCHANGED status
        /\ UNCHANGED <<kind, validators, difficulty, hexZeros, tamper, wasValid, merkleVars, threadVars>>

\* PoSBlockchain::addBlock(txs).
PoSAddBlock(txs, now, r, out) ==
    LET newBlock == Block(Len(chain), getLastBlock(chain).hash, txs, now)
    IN  /\ CanAppend("PoS")
        /\ randVal' = r
        /\ IF out.crashed
           THEN /\ status' = "crashed"
                /\ UNCHANGED <<chain, selected>>
           ELSE /\ selected' = <<out.name>>
                /\ chain' = Append(chain, forgeBlock(newBlock, out.name))
                /\ UNCHANGED status
        /\ UNCHANGED <<kind, validators, difficulty, hexZeros, tamper, wasValid, merkleVars, threadVars>>

\* A harness overwrites the amount of transaction j of block i > 0 (c[i + 1]).
TamperAmount(i, j, a) ==
    /\ CanTamper
    /\ a # chain[i + 1].transactions[j].amount
    /\ wasValid' = isValid(chain)
    /\ tamper' = "amount"
    /\ chain' = [chain EXCEPT ![i + 1].transactions[j].amount = a]
    /\ UNCHANGED <<kind, status, difficulty, hexZeros, stakeVars, merkleVars, threadVars>>

\* A harness overwrites previousHash of block i > 0 with an unrelated digest.
TamperPreviousHash(i) ==
    /\ CanTamper
    /\ wasValid' = isValid(chain)
    /\ tamper' = "previousHash"
    /\ chain' = [chain EXCEPT ![i + 1].previousHash = UnrelatedDigest]
    /\ UNCHANGED <<kind, status, difficulty, hexZeros, stakeVars, merkleVars, threadVars>>

\* The fields of the genesis block a harness may overwrite, hash excluded.
GenesisFields == {"merkleRoot", "transactions", "timestamp", "nonce", "index"}

\* A harness overwrites one field of the genesis block and leaves its hash.
TamperGenesis(f) ==
    /\ CanTamper
    /\ wasValid' = isValid(chain)
    /\ tamper' = "genesis"
    /\ chain' = [chain EXCEPT ![1] =
                    CASE f = "merkleRoot" -> [@ EXCEPT !.merkleRoot = UnrelatedDigest]
                      [] f = "transactions" -> [@ EXCEPT !.transactions = <<>>]
                      [] f = "timestamp" -> [@ EXCEPT !.timestamp = @ + 1]
                      [] f = "nonce" -> [@ EXCEPT !.nonce = @ + 1]
                      [] f = "index" -> [@ EXCEPT !.index = @ + 1]]
    /\ UNCHANGED <<kind, status, difficulty, hexZeros, stakeVars, merkleVars, threadVars>>

\* A harness seals the last block of a PoW chain again with a nonce n the
\* mining loop rejected: it stores n and computeHash(n), a digest without
\* the prefix `difficulty` asks for.
TamperReseal(n) ==
    LET tip == getLastBlock(chain)
    IN  /\ CanTamper
        /\ kind = "PoW" /\ Len(chain) >= 2
        /\ Preimage(tip, n, <<>>) \in DOMAIN hexZeros
        /\ ~HasZeroPrefix(hexZeros[Preimage(tip, n, <<>>)], difficulty)
        /\ wasValid' = isValid(chain)
        /\ tamper' = "reseal"
        /\ chain' = [chain EXCEPT ![Len(chain)] =
                        [tip EXCEPT !.nonce = n, !.hash = computeHash(tip, n, <<>>)]]
        /\ UNCHANGED <<kind, status, difficulty, hexZeros, stakeVars, merkleVars, threadVars>>

InitChain ==
    /\ kind = "none" /\ status = "none" /\ chain = <<>> /\ difficulty = 0
    /\ hexZeros = EmptyTable /\ tamper = "none" /\ wasValid = FALSE

InitStake == validators = <<>> /\ randVal = U64(0) /\ selected = <<>>

InitMerkle == leaves = <<>> /\ tree = <<>> /\ built = FALSE

\* No caller is inside addBlock.
InitThreads == pc = [p \in Producers |-> "idle"] /\ pending = [p \in Producers |-> <<>>]

Init == InitChain /\ InitStake /\ InitMerkle /\ InitThreads

Next ==
    \/ \E now \in Timestamps : NewBase(now)
    \/ /\ status = "none"
       /\ \E diff \in Difficulties, now \in Timestamps :
             \E sha \in Oracles(Blockchain(now)[1]) : NewPoW(diff, now, sha)
    \/ /\ CanAppend("PoW")
       /\ \E txs \in TxBatches, now \in Timestamps :
             \E sha \in Oracles(Block(Len(chain), getLastBlock(chain).hash, txs, now)) :
                PoWAddBlock(txs, now, sha)
    \/ /\ status = "none"
       /\ \E vals \in ValidatorConfigs, now \in Timestamps :
             \E r \in Draws(vals) : \E out \in SelectOutcomes(vals, r) :
                NewPoS(vals, now, r, out)
    \/ /\ CanAppend("PoS")
       /\ \E txs \in TxBatches, now \in Timestamps :
             \E r \in Draws(validators) : \E out \in SelectOutcomes(validators, r) :
                PoSAddBlock(txs, now, r, out)
    \/ /\ CanTamper
       /\ \E i \in 1..(Len(chain) - 1) :
             \E j \in DOMAIN chain[i + 1].transactions, a \in Amounts : TamperAmount(i, j, a)
    \/ /\ CanTamper
       /\ \E i \in 1..(Len(chain) - 1) : TamperPreviousHash(i)
    \/ /\ CanTamper
       /\ \E f \in GenesisFields : TamperGenesis(f)
    \/ /\ CanTamper
       /\ \E n \in 0..MaxNonce : TamperReseal(n)

Spec == Init /\ [][Next]_vars

-----------------------------------------------------------------------------
(* A MerkleTree built on its own (Exercice1.cpp main).                     *)

LeafItems == {Chars(<<"A">>), Chars(<<"B">>), Chars(<<"C">>)}

LeafSeqs == UNION {[1..n -> LeafItems] : n \in 0..MaxLeaves}

\* MerkleTree::MerkleTree(data), on the leaves chosen at the start.
MerkleTree ==
    /\ ~built
    /\ tree' = buildTree(leaves)
    /\ built' = TRUE
    /\ UNCHANGED <<leaves, chainVars, stakeVars, threadVars>>

InitLeaves ==
    InitChain /\ InitStake /\ InitThreads /\ leaves \in LeafSeqs /\ tree = <<>> /\ built = FALSE

NextMerkle == MerkleTree

SpecMerkle == InitLeaves /\ [][NextMerkle]_vars

-----------------------------------------------------------------------------
(* selectValidator applied to a validator list on its own.                 *)

StakeSamples == {U64(0), U64(1), U64(2), U64Max}

\* The validators of Exercice4.cpp main.
DemoValidators ==
    <<Validator(V(1), U64(100)), Validator(V(2), U64(200)), Validator(V(3), U64(150))>>

ValidatorLists ==
    {DemoValidators}
    \cup UNION {{[i \in 1..n |-> Validator(V(i), st[i])] : st \in [1..n -> StakeSamples]} :
                n \in 0..MaxValidators}

\* One call of selectValidator; dis(gen) returns r.
Select(r, out) ==
    /\ status = "none"
    /\ randVal' = r
    /\ IF out.crashed
       THEN status' = "crashed" /\ UNCHANGED selected
       ELSE selected' = <<out.name>> /\ UNCHANGED status
    /\ UNCHANGED <<kind, chain, difficulty, hexZeros, tamper, wasValid, validators, merkleVars, threadVars>>

InitSelect ==
    /\ InitChain /\ InitMerkle /\ InitThreads
    /\ validators \in ValidatorLists /\ randVal = U64(0) /\ selected = <<>>

NextSelect ==
    \E r \in Draws(validators) : \E out \in SelectOutcomes(validators, r) : Select(r, out)

SpecSelect == InitSelect /\ [][NextSelect]_vars

-----------------------------------------------------------------------------
(* Exercice3.cpp: the block whose payload is one string, and the           *)
(* PoSBlockchain that forges it.                                           *)

Ex3_Block(idx, prev, d, now) ==
    [index |-> idx, previousHash |-> prev, data |-> d, timestamp |-> now,
     nonce |-> 0, hash |-> <<>>]

Ex3_computeHash(b, testNonce) ==
    sha256_hex(Dec(b.index) \o b.previousHash \o b.data \o Dec(b.timestamp) \o Dec(testNonce))

\* PoSBlockchain::forgeBlock of Exercice3.cpp, given the validator selected.
Ex3_forgeBlock(b, validator) ==
    LET reset == [b EXCEPT !.nonce = 0]
        signed == [reset EXCEPT !.data = @ \o Chars(<<" ", "(", "F", "o", "r", "g", "e", "d", " ", "b", "y", ":", " ">>) \o validator \o Chars(<<")">>)]
    IN  [signed EXCEPT !.hash = Ex3_computeHash(signed, signed.nonce)]

Ex3_Genesis(now) == Ex3_Block(0, Chars(<<"0">>), Chars(<<"G", "e", "n", "e", "s", "i", "s", " ", "B", "l", "o", "c", "k">>), now)

Ex3_Data == {Chars(<<"T", "r", "a", "n", "s", "a", "c", "t", "i", "o", "n", " ", "1">>)}

-----------------------------------------------------------------------------
(* Construction and addBlock statement by statement, with up to two        *)
(* callers inside addBlock of the same chain.  Nothing in the classes      *)
(* orders the callers, so their statements interleave freely, and their    *)
(* unordered accesses to `chain` are a data race.                          *)

StepDifficulties == {2, DigestLen + 1}

StepBatches == {<<>>, <<Tx1>>}

\* mineIteration that leaves the loop after any hash.
mineIteration_BreakAlways(b, diff, sha) ==
    [block |-> [b EXCEPT !.hash = computeHash(b, b.nonce, <<>>)], done |-> TRUE]

\* One pass of the while loop of mineBlock: hash with the current nonce,
\* leave the loop if the prefix fits, else increment the nonce.
mineIteration(b, diff, sha) ==
    LET hashed == [b EXCEPT !.hash = computeHash(b, b.nonce, <<>>)]
    IN  IF HasZeroPrefix(LeadingZeros(hashed.hash, sha), diff)
        THEN [block |-> hashed, done |-> TRUE]
        ELSE [block |-> [hashed EXCEPT !.nonce = @ + 1], done |-> FALSE]

\* The tables that agree with hexZeros and fix SHA-256 on MiningInputs(b) so
\* that the nonces below some k give no leading '0' and the others give two.
StepOracles(b) ==
    {hexZeros @@ [p \in MiningInputs(b) |->
                    IF (CHOOSE n \in 0..MaxNonce : Preimage(b, n, <<>>) = p) < k THEN 0 ELSE 2] :
        k \in 0..(MaxNonce + 1)}

\* The callers inside addBlock: each caller calls it once.
InFlight == {q \in Producers : pc[q] \in {"seal", "push"}}

\* The process runs, the chain is constructed and p has not called yet.
CanBegin(p) == status = "ok" /\ tamper = "none" /\ pc[p] = "idle"

\* PoWBlockchain::PoWBlockchain up to the call of mineBlock: the base
\* constructor has pushed the unsealed genesis block.
BeginPoW(diff, now, sha) ==
    /\ status = "none"
    /\ kind' = "PoW"
    /\ status' = "constructing"
    /\ difficulty' = diff
    /\ chain' = Blockchain(now)
    /\ hexZeros' = sha
    /\ UNCHANGED <<tamper, wasValid, stakeVars, merkleVars, threadVars>>

\* One pass of chain[0].mineBlock(difficulty) inside the constructor; the
\* constructor returns when the loop is left.
CtorMineStep ==
    LET it == mineIteration(chain[1], difficulty, hexZeros)
    IN  /\ status = "constructing"
        /\ it.done \/ chain[1].nonce < MaxNonce
        /\ chain' = <<it.block>>
        /\ status' = IF it.done THEN "ok" ELSE "constructing"
        /\ UNCHANGED <<kind, difficulty, hexZeros, tamper, wasValid, stakeVars, merkleVars,
                       threadVars>>

\* PoSBlockchain::PoSBlockchain of Exercice3.cpp.
Ex3_NewPoS(vals, now, r, out) ==
    /\ status = "none"
    /\ kind' = "PoS3"
    /\ validators' = vals
    /\ randVal' = r
    /\ IF out.crashed
       THEN /\ status' = "crashed"
            /\ chain' = <<>>
            /\ UNCHANGED selected
       ELSE /\ status' = "ok"
            /\ selected' = <<out.name>>
            /\ chain' = <<Ex3_forgeBlock(Ex3_Genesis(now), out.name)>>
    /\ UNCHANGED <<difficulty, hexZeros, tamper, wasValid, merkleVars, threadVars>>

\* addBlock of Exercice4.cpp, first statement:
\* Block newBlock(chain.size(), getLastBlock().hash, transactions).
BeginAddBlock(p, txs, now, sha) ==
    /\ CanBegin(p)
    /\ kind \in {"PoW", "PoS"}
    /\ pending' = [pending EXCEPT ![p] = <<Block(Len(chain), getLastBlock(chain).hash, txs, now)>>]
    /\ pc' = [pc EXCEPT ![p] = "seal"]
    /\ hexZeros' = sha
    /\ UNCHANGED <<kind, status, chain, difficulty, tamper, wasValid, stakeVars, merkleVars>>

\* addBlock of Exercice3.cpp PoSBlockchain, first two statements.
Ex3_BeginAddBlock(p, d, now) ==
    /\ CanBegin(p)
    /\ kind = "PoS3"
    /\ pending' = [pending EXCEPT ![p] = <<Ex3_Block(Len(chain), getLastBlock(chain).hash, d, now)>>]
    /\ pc' = [pc EXCEPT ![p] = "seal"]
    /\ UNCHANGED <<chainVars, stakeVars, merkleVars>>

\* One pass of newBlock.mineBlock(difficulty) in caller p.
MineStep(p) ==
    LET it == mineIteration(pending[p][1], difficulty, hexZeros)
    IN  /\ status = "ok" /\ kind = "PoW" /\ pc[p] = "seal"
        /\ it.done \/ pending[p][1].nonce < MaxNonce
        /\ pending' = [pending EXCEPT ![p] = <<it.block>>]
        /\ pc' = [pc EXCEPT ![p] = IF it.done THEN "push" ELSE "seal"]
        /\ UNCHANGED <<chainVars, stakeVars, merkleVars>>

\* The sealing statement of a PoS addBlock in caller p: kind "PoS" is
\* newBlock.forgeBlock(selectValidator()) of Exercice4.cpp, kind "PoS3" is
\* forgeBlock(newBlock) of Exercice3.cpp.
ForgeStep(p, r, out) ==
    /\ status = "ok" /\ kind \in {"PoS", "PoS3"} /\ pc[p] = "seal"
    /\ randVal' = r
    /\ IF out.crashed
       THEN /\ status' = "crashed"
            /\ UNCHANGED <<selected, threadVars>>
       ELSE /\ selected' = <<out.name>>
            /\ pending' = [pending EXCEPT ![p] =
                              <<IF kind = "PoS" THEN forgeBlock(pending[p][1], out.name)
                                ELSE Ex3_forgeBlock(pending[p][1], out.name)>>]
            /\ pc' = [pc EXCEPT ![p] = "push"]
            /\ UNCHANGED status
    /\ UNCHANGED <<kind, chain, difficulty, hexZeros, tamper, wasValid, validators, merkleVars>>

\* What chain.push_back(newBlock) of caller p may do: push; and, when another
\* call is in flight and so races on `chain`, also end the process.
PushOutcomes(p) == {"pushed"} \cup (IF InFlight # {p} THEN {"crashed"} ELSE {})

\* addBlock, last statement: chain.push_back(newBlock); the call returns.
PushBack(p, outcome) ==
    /\ status = "ok" /\ pc[p] = "push"
    /\ IF outcome = "pushed"
       THEN /\ chain' = Append(chain, pending[p][1])
            /\ pc' = [pc EXCEPT ![p] = "returned"]
            /\ pending' = [pending EXCEPT ![p] = <<>>]
            /\ UNCHANGED status
       ELSE /\ status' = "crashed"
            /\ UNCHANGED <<chain, threadVars>>
    /\ UNCHANGED <<kind, difficulty, hexZeros, tamper, wasValid, stakeVars, merkleVars>>

NextSteps ==
    \/ /\ status = "none"
       /\ \E diff \in StepDifficulties, now \in Timestamps :
             \E sha \in StepOracles(Blockchain(now)[1]) : BeginPoW(diff, now, sha)
    \/ CtorMineStep
    \/ /\ status = "none"
       /\ \E vals \in ValidatorConfigs, now \in Timestamps :
             \E r \in Draws(vals) : \E out \in SelectOutcomes(vals, r) :
                NewPoS(vals, now, r, out)
    \/ /\ status = "none"
       /\ \E vals \in ValidatorConfigs, now \in Timestamps :
             \E r \in Draws(vals) : \E out \in SelectOutcomes(vals, r) :
                Ex3_NewPoS(vals, now, r, out)
    \/ \E p \in Producers :
          /\ CanBegin(p) /\ kind \in {"PoW", "PoS"}
          /\ \E txs \in StepBatches, now \in Timestamps :
                \E sha \in (IF kind = "PoW"
                            THEN StepOracles(Block(Len(chain), getLastBlock(chain).hash, txs, now))
                            ELSE {hexZeros}) :
                   BeginAddBlock(p, txs, now, sha)
    \/ \E p \in Producers, d \in Ex3_Data, now \in Timestamps : Ex3_BeginAddBlock(p, d, now)
    \/ \E p \in Producers : MineStep(p)
    \/ \E p \in Producers :
          /\ status = "ok" /\ pc[p] = "seal"
          /\ \E r \in Draws(validators) : \E out \in SelectOutcomes(validators, r) :
                ForgeStep(p, r, out)
    \/ \E p \in Producers : \E outcome \in PushOutcomes(p) : PushBack(p, outcome)

\* A thread inside a mining loop keeps being scheduled.
SpecSteps ==
    /\ Init
    /\ [][NextSteps]_vars
    /\ WF_vars(CtorMineStep)
    /\ \A p \in Producers : WF_vars(MineStep(p))

-----------------------------------------------------------------------------
(* Properties.                                                             *)

\* The sum of the first n stakes as an integer, without reduction.
RECURSIVE ExactStake(_, _)
ExactStake(vals, n) ==
    IF n = 0 THEN U64(0) ELSE BigAdd(ExactStake(vals, n - 1), vals[n].second)

PositiveStake(vals) == BigLess(U64(0), ExactStake(vals, Len(vals)))

\* A chain object exists and no harness has touched it.
Untouched == status = "ok" /\ tamper = "none"

\* C1: a PoS chain built over a validator list of positive total stake, with
\* at least one addBlock and no tampering, is valid, whatever the draws were.
C1_PoSChainValid ==
    (kind = "PoS" /\ Untouched /\ PositiveStake(validators) /\ Len(chain) > 1)
        => isValid(chain)

\* C2: changing the amount of a transaction stored in a block i > 0 of a chain
\* that was valid makes isValid() return false.
C2_AmountTamperDetected ==
    (tamper = "amount" /\ wasValid) => ~isValid(chain)

\* C3: a PoW chain after construction and any addBlock calls, not tampered
\* with, is valid.
C3_PoWChainValid ==
    (kind = "PoW" /\ Untouched) => isValid(chain)

C3_Witness ==
    /\ kind = "PoW" /\ Untouched /\ difficulty > 0 /\ Len(chain) >= 3
    /\ \E i \in 2..Len(chain) : chain[i].nonce > 0
    /\ isValid(chain)

\* C4: after construction and any addBlock calls the genesis block has index 0
\* and previousHash "0", and every later block i has index i and
\* previousHash equal to the hash of block i - 1.
C4_IndexAndLink ==
    (Untouched /\ kind \in {"PoW", "PoS"}) =>
        /\ chain[1].index = 0
        /\ chain[1].previousHash = Chars(<<"0">>)
        /\ \A i \in 2..Len(chain) :
              chain[i].index = i - 1 /\ chain[i].previousHash = chain[i - 1].hash

C4_Witness ==
    /\ Untouched /\ kind = "PoS" /\ Len(chain) >= 3
    /\ chain[3].previousHash = chain[2].hash /\ chain[2].hash # chain[1].hash

\* C5: isValid() is false whenever some block i > 0 does not link to its
\* predecessor's hash or stores a hash other than the digest of its stored
\* fields; in particular after previousHash of a block i > 0 was replaced by
\* an unrelated digest.
C5_BrokenChainRejected ==
    status = "ok" =>
        /\ (\E i \in 2..Len(chain) :
                \/ chain[i].previousHash # chain[i - 1].hash
                \/ chain[i].hash # computeHash(chain[i], chain[i].nonce, <<>>))
             => ~isValid(chain)
        /\ tamper = "previousHash" => ~isValid(chain)

C5_Witness ==
    /\ tamper = "previousHash" /\ wasValid /\ ~isValid(chain)
    /\ \E i \in 2..Len(chain) :
          /\ chain[i].previousHash # chain[i - 1].hash
          /\ chain[i].hash = computeHash([chain[i] EXCEPT !.previousHash = chain[i - 1].hash],
                                         chain[i].nonce, <<>>)

\* C6: every block of a PoW chain of difficulty d, the genesis block included,
\* stores a hash whose first d hex characters are '0' and which is
\* computeHash of the stored nonce.
C6_ProofOfWork ==
    (kind = "PoW" /\ Untouched) =>
        \A i \in 1..Len(chain) :
            /\ difficulty <= DigestLen
            /\ LeadingZeros(chain[i].hash, hexZeros) >= difficulty
            /\ chain[i].hash = computeHash(chain[i], chain[i].nonce, <<>>)

C6_Witness ==
    /\ kind = "PoW" /\ Untouched /\ difficulty = 2 /\ Len(chain) >= 2
    /\ chain[1].nonce > 0 /\ chain[2].nonce > 0
    /\ \A i \in 1..Len(chain) : LeadingZeros(chain[i].hash, hexZeros) >= 2

\* C7: building a PoS chain, or appending to one, with an empty validator list
\* or a total stake of zero ends in InvalidConfiguration: no validator is
\* selected and no block is attached to the chain.
C7_InvalidConfigurationRejected ==
    (kind = "PoS" /\ ~PositiveStake(validators)) =>
        status = "InvalidConfiguration" /\ selected = <<>> /\ chain = <<>>

\* Draw r lies in validator k's range [stake before k, stake up to k).
InRange(vals, k, r) ==
    ~BigLess(r, ExactStake(vals, k - 1)) /\ BigLess(r, ExactStake(vals, k))

\* C8: with a positive total stake, selectValidator returns the one validator
\* whose range of cumulative stake holds the draw, never one of stake zero;
\* for {V1:100, V2:200, V3:150} and the draw 250 that is V2.
C8_StakeWeightedSelection ==
    /\ selectValidator(DemoValidators, U64(250)) = V(2)
    /\ (selected # <<>> /\ PositiveStake(validators)) =>
          \E k \in 1..Len(validators) :
             /\ InRange(validators, k, randVal)
             /\ \A j \in 1..Len(validators) : InRange(validators, j, randVal) => j = k
             /\ selected[1] = validators[k].first
             /\ validators[k].second # U64(0)

-----------------------------------------------------------------------------
(* The Merkle root built level by level.                                   *)

RefLevel0(data) == [i \in DOMAIN data |-> sha256_hex(data[i])]

\* The parents of a level: each pair hashed left then right, an unpaired
\* last node promoted as it is.
RefNext(level) ==
    [k \in 1..((Len(level) + 1) \div 2) |->
        IF 2 * k <= Len(level) THEN sha256_hex(level[2 * k - 1] \o level[2 * k])
        ELSE level[2 * k - 1]]

RECURSIVE RefRoot(_)
RefRoot(level) ==
    IF level = <<>> THEN <<>>
    ELSE IF Len(level) = 1 THEN level[1]
    ELSE RefRoot(RefNext(level))

LeafA == Chars(<<"A">>)
LeafB == Chars(<<"B">>)
LeafC == Chars(<<"C">>)

\* H(H(H(A) + H(B)) + H(C))
RootABC ==
    sha256_hex(sha256_hex(sha256_hex(LeafA) \o sha256_hex(LeafB)) \o sha256_hex(LeafC))

\* C9: buildTree ends and getRoot is the root of the level-by-level
\* construction, in which an unpaired last node is promoted unchanged; for
\* [A, B, C] the root is H(H(H(A) + H(B)) + H(C)).
C9_MerkleRoot ==
    built =>
        /\ getRoot(tree) = RefRoot(RefLevel0(leaves))
        /\ leaves = <<LeafA, LeafB, LeafC>> => getRoot(tree) = RootABC

C9_Witness ==
    built /\ leaves = <<LeafA, LeafB, LeafC>> /\ getRoot(tree) = RootABC

\* C10: the root over no leaves is the empty string, and the root over one
\* leaf x is digest(x), not hashed again.
C10_EmptyAndSingle ==
    built =>
        /\ leaves = <<>> => getRoot(tree) = <<>>
        /\ Len(leaves) = 1 => getRoot(tree) = sha256_hex(leaves[1])

C10_Witness ==
    built /\ Len(leaves) = 1 /\ tree = <<sha256_hex(leaves[1])>>

\* The rearrangements of a sequence.
Rearrangements(s) ==
    {[i \in 1..Len(s) |-> s[f[i]]] : f \in Permutations(1..Len(s))}

\* C11: with a collision-free digest the root depends on the order of the
\* leaves: every rearrangement of the leaves that differs from them as a
\* sequence has a different root; and building again from the same leaves
\* gives the same root.
C11_OrderSensitive ==
    built =>
        /\ \A p \in Rearrangements(leaves) :
              p # leaves => getRoot(buildTree(p)) # getRoot(tree)
        /\ getRoot(buildTree(leaves)) = getRoot(tree)

C11_Witness ==
    /\ built /\ Len(leaves) = MaxLeaves
    /\ \E i, j \in DOMAIN leaves : leaves[i] # leaves[j]
    /\ \E p \in Rearrangements(leaves) :
          p # leaves /\ p[1] = leaves[1] /\ getRoot(buildTree(p)) # getRoot(tree)

-----------------------------------------------------------------------------
(* Sealing.                                                                *)

\* C12: the block a PoS chain sealed last has nonce 0, stores the digest of
\* (index, previousHash, merkleRoot, timestamp, nonce, chosen validator), and
\* the chosen validator can be read back from the stored block.
C12_ForgedBlock ==
    (kind = "PoS" /\ Untouched /\ selected # <<>>) =>
        LET b == getLastBlock(chain)
            v == selected[1]
        IN  /\ b.nonce = 0
            /\ b.hash = sha256_hex(Preimage(b, 0, v))
            /\ extractValidator(b) = v

\* C13: a completed addBlock, PoW or PoS, makes the chain one block longer
\* and leaves the blocks it held as they were; no step of a chain object,
\* completed or not, removes or rewrites a block it holds.
C13_AppendOnly ==
    [][(status = "ok" /\ tamper' = "none") =>
          /\ Len(chain') >= Len(chain)
          /\ SubSeq(chain', 1, Len(chain)) = chain
          /\ status' = "ok" => Len(chain') = Len(chain) + 1]_vars

C13_Witness ==
    /\ Untouched /\ Len(chain) = MaxBlocks
    /\ chain[2].previousHash = chain[1].hash /\ chain[3].previousHash = chain[2].hash

\* The digests a sealing rule can give block b: mineBlock hashes the fields
\* with the nonce alone, forgeBlock with the nonce and the chosen validator.
SealDigests(b) ==
    {computeHash(b, b.nonce, v) :
        v \in {<<>>} \cup {validators[k].first : k \in DOMAIN validators} \cup GarbageNames}

\* C14: in every state of a chain object a caller can observe, a directly
\* constructed base Blockchain included, every block of the chain, the
\* genesis block included, has a non-empty hash that is the digest its
\* sealing rule computes.
C14_SealedBeforeMember ==
    Untouched =>
        \A i \in 1..Len(chain) :
            chain[i].hash # <<>> /\ chain[i].hash \in SealDigests(chain[i])

\* SHA-256 was given block b's fields with nonce n, and the digest has the
\* prefix difficulty asks for.
Qualifies(b, n) ==
    /\ Preimage(b, n, <<>>) \in DOMAIN hexZeros
    /\ HasZeroPrefix(hexZeros[Preimage(b, n, <<>>)], difficulty)

\* C16: every block mined for a PoW chain stores the least nonce whose digest
\* of (index, previousHash, merkleRoot, timestamp, nonce) has `difficulty`
\* leading '0' characters: the nonces below it were hashed and none
\* qualified; with difficulty 0 the stored nonce is 0.
C16_LeastNonce ==
    (kind = "PoW" /\ Untouched) =>
        \A i \in 1..Len(chain) :
            /\ Qualifies(chain[i], chain[i].nonce)
            /\ \A n \in 0..(chain[i].nonce - 1) :
                  /\ Preimage(chain[i], n, <<>>) \in DOMAIN hexZeros
                  /\ ~Qualifies(chain[i], n)
            /\ difficulty = 0 => chain[i].nonce = 0

C16_Witness ==
    /\ kind = "PoW" /\ Untouched /\ difficulty = 2 /\ Len(chain) >= 2
    /\ chain[2].nonce = MaxNonce
    /\ \A n \in 0..(MaxNonce - 1) : ~Qualifies(chain[2], n)
    /\ Qualifies(chain[2], MaxNonce)

-----------------------------------------------------------------------------
(* addBlock statement by statement.                                        *)

\* C15: whatever the interleaving of two callers inside addBlock of the same
\* PoW or PoS chain, every block i > 0 of the chain has index i and links to
\* the hash of block i - 1, so no two blocks share an index or a predecessor.
C15_SerializedAppends ==
    (status = "ok" /\ tamper = "none" /\ kind \in {"PoW", "PoS"}) =>
        /\ \A i \in 2..Len(chain) :
              chain[i].index = i - 1 /\ chain[i].previousHash = chain[i - 1].hash
        /\ \A i, j \in 1..Len(chain) :
              i # j => /\ chain[i].index # chain[j].index
                       /\ chain[i].previousHash # chain[j].previousHash

\* Some nonce from block b's current one on qualifies (up to MaxNonce).
SomeNonceQualifies(b) == \E n \in b.nonce..MaxNonce : Qualifies(b, n)

\* C17: mineBlock leaves its loop only by returning a block whose digest
\* qualifies, never with an error; it does return when some nonce qualifies;
\* and with a difficulty above the digest's 64 characters the constructor
\* never returns, so the chain is never exposed nor extended.
C17_MiningTermination ==
    /\ [][/\ \A p \in Producers :
              (kind = "PoW" /\ pc[p] = "seal" /\ pc'[p] # "seal") =>
                  /\ pc'[p] = "push" /\ status' = "ok"
                  /\ Qualifies(pending'[p][1], pending'[p][1].nonce)
          /\ (status = "constructing" /\ status' # "constructing") =>
                  status' = "ok" /\ Qualifies(chain'[1], chain'[1].nonce)]_vars
    /\ \A p \in Producers :
          (kind = "PoW" /\ status = "ok" /\ pc[p] = "seal" /\ SomeNonceQualifies(pending[p][1]))
              ~> (pc[p] = "push" \/ status = "crashed")
    /\ (status = "constructing" /\ SomeNonceQualifies(chain[1])) ~> (status = "ok")
    /\ [](difficulty > DigestLen =>
             /\ status = "constructing" /\ Len(chain) = 1
             /\ \A p \in Producers : pc[p] = "idle")

C17_Witness ==
    /\ kind = "PoW" /\ status = "ok"
    /\ \E p \in Producers :
          /\ pc[p] = "push" /\ pending[p][1].nonce = MaxNonce
          /\ Qualifies(pending[p][1], MaxNonce)
          /\ \A n \in 0..(MaxNonce - 1) : ~Qualifies(pending[p][1], n)

\* Blocks a and b differ at most in nonce and hash.
SameButSeal(a, b) ==
    [a EXCEPT !.nonce = 0, !.hash = <<>>] = [b EXCEPT !.nonce = 0, !.hash = <<>>]

\* C18 as stated: a sealing step (a pass of mineBlock, or forgeBlock) changes
\* only nonce and hash of the block it seals, be it addBlock's local block
\* or the genesis block the constructor mines in place.
C18_SealingFrame ==
    [][/\ \A p \in Producers :
            (pending[p] # <<>> /\ pending'[p] # <<>>) =>
                SameButSeal(pending[p][1], pending'[p][1])
       /\ (status = "constructing" /\ chain' # <<>>) => SameButSeal(chain[1], chain'[1])]_vars

\* C18 amended: sealing never changes index, previousHash, timestamp,
\* merkleRoot or the transaction list; mineBlock and forgeBlock of
\* Exercice4.cpp change only nonce and hash, while forgeBlock of
\* Exercice3.cpp also appends " (Forged by: <validator>)" to data.
C18_SealingFrameAmended ==
    [][/\ \A p \in Producers :
            (pending[p] # <<>> /\ pending'[p] # <<>> /\ pending'[p] # pending[p]) =>
                LET old == pending[p][1]
                    new == pending'[p][1]
                IN  IF kind = "PoS3"
                    THEN /\ new.index = old.index
                         /\ new.previousHash = old.previousHash
                         /\ new.timestamp = old.timestamp
                         /\ new.data = old.data \o Chars(<<" ", "(", "F", "o", "r", "g", "e", "d", " ", "b", "y", ":", " ">>) \o selected'[1] \o Chars(<<")">>)
                    ELSE SameButSeal(old, new)
       /\ (status = "constructing" /\ chain' # <<>>) => SameButSeal(chain[1], chain'[1])]_vars

C18_Witness ==
    /\ kind = "PoS3" /\ status = "ok"
    /\ \E p \in Producers : \E d \in Ex3_Data :
          /\ pc[p] = "push" /\ pending[p][1].hash # <<>>
          /\ pending[p][1].index = 1
          /\ Len(pending[p][1].data) > Len(d)
          /\ SubSeq(pending[p][1].data, 1, Len(d)) = d

-----------------------------------------------------------------------------
(* The commitment to the transactions, and what isValid reads of the       *)
(* genesis block.                                                          *)

\* The leaves of a block: each transaction as id, sender, receiver, amount.
TxLeaves(b) ==
    [j \in DOMAIN b.transactions |->
        b.transactions[j].id \o b.transactions[j].sender \o b.transactions[j].receiver
        \o FormatDouble(b.transactions[j].amount)]

\* C19: in a chain nobody tampered with, every block's merkleRoot is the
\* Merkle root of its own transactions, each serialized as id, sender,
\* receiver, amount, in their stored order; the genesis block commits to the
\* one placeholder transaction ("0", "Genesis", "Genesis", 0).
C19_MerkleCommitment ==
    Untouched =>
        /\ \A i \in 1..Len(chain) : chain[i].merkleRoot = RefRoot(RefLevel0(TxLeaves(chain[i])))
        /\ Len(chain[1].transactions) = 1
        /\ chain[1].merkleRoot =
              sha256_hex(Chars(<<"0", "G", "e", "n", "e", "s", "i", "s",
                                 "G", "e", "n", "e", "s", "i", "s", "0">>))

C19_Witness ==
    /\ Untouched /\ Len(chain) = MaxBlocks
    /\ \E i \in 2..Len(chain) :
          /\ Len(chain[i].transactions) = 2
          /\ chain[i].merkleRoot =
                sha256_hex(sha256_hex(TxLeaves(chain[i])[1]) \o sha256_hex(TxLeaves(chain[i])[2]))
    /\ \E i \in 2..Len(chain) : chain[i].transactions = <<>> /\ chain[i].merkleRoot = <<>>

\* C20: isValid() does not read the genesis block's own fields: overwriting
\* its merkleRoot, transactions, timestamp, nonce or index, the hash left as
\* it was, leaves the result of isValid() as before; and a chain of the
\* genesis block alone is valid.
C20_GenesisNotInspected ==
    /\ tamper = "genesis" => isValid(chain) = wasValid
    /\ (status = "ok" /\ Len(chain) = 1) => isValid(chain)

C20_Witness ==
    /\ tamper = "genesis" /\ kind = "PoW" /\ Len(chain) >= 2
    /\ wasValid /\ isValid(chain)
    /\ chain[1].hash # computeHash(chain[1], chain[1].nonce, <<>>)

\* Every block i > 0 links to its predecessor and stores computeHash of its
\* stored nonce.
LinkedAndHashed(c) ==
    \A i \in 2..Len(c) :
        /\ c[i].previousHash = c[i - 1].hash
        /\ c[i].hash = computeHash(c[i], c[i].nonce, <<>>)

\* C21: on a PoW chain isValid() is true exactly when every block i > 0
\* links to its predecessor and stores computeHash(stored nonce), whatever
\* the difficulty; so a last block sealed again with a nonce whose digest
\* lacks the `difficulty` leading '0' characters is accepted.
C21_ProofOfWorkNotChecked ==
    (kind = "PoW" /\ status = "ok") =>
        /\ isValid(chain) <=> LinkedAndHashed(chain)
        /\ tamper = "reseal" => isValid(chain)

C21_Witness ==
    /\ kind = "PoW" /\ tamper = "reseal" /\ difficulty = 2 /\ isValid(chain)
    /\ \E i \in 2..Len(chain) :
          /\ chain[i].hash = computeHash(chain[i], chain[i].nonce, <<>>)
          /\ LeadingZeros(chain[i].hash, hexZeros) < difficulty

=============================================================================
